---- MODULE Spec2Model ----
(***************************************************************************)
(* The task queue engine of the mineflayer bot (src/unnamed/part_000, the  *)
(* chat-controlled version of src/bot.js): the persisted queue store, the  *)
(* Queue Runner (runLoop), the task handlers with their timers and         *)
(* listeners, and the chat command dispatcher (onChat).                    *)
(*                                                                         *)
(* Node runs one callback at a time.  Every action below is one callback   *)
(* (a timer firing, an event of the game client, a chat message) run up to *)
(* the point where it returns to the event loop.  The continuation of an   *)
(* `await` whose promise was settled by that callback runs as a microtask  *)
(* before any other callback: it is modelled by the runner positions       *)
(* "returned" and "threw", in which only the runner's continuation is      *)
(* enabled.                                                                *)
(***************************************************************************)
EXTENDS Integers, Sequences, FiniteSets, TLC

(* ------------------------------ bounds --------------------------------- *)
\* tasks (queued and active) in a state.json found at startup
MaxTasks == 3
\* the positive repeat count ("times") of the tasks in a state.json
MaxTimes == 2
\* look-at calls of rightClickBlock ticks that may be pending together
MaxInflight == 2
\* executions of one active task that are counted (the counter saturates)
MaxAttempts == 2

\* entities in the world snapshot the target selector reads
MaxEntities == 2

(* ------------------------------ values --------------------------------- *)
\* chat words that stand for arguments: a numeric one and a non-numeric one
Tokens == {"7", "x"}

\* a task descriptor.  id is the identity of the JS object (not a field of
\* the source's descriptor): a new object gets the least id that no object in
\* use has.  pos is what the coordinates x, y, z hold: "none" (the task has
\* none), "num" (numbers), "NaN" (one of them is NaN) or "null" (one of them
\* is null).  The range, the timing fields (ms, everyMs, distance) and the
\* player name are left out: no handler of the model reads them.
Task(type, id, times) == [type |-> type, id |-> id, times |-> times, pos |-> "none"]

\* null / undefined in the active slot
Null == Task("null", 0, 0)

KnownTypes ==
    {"wait", "goto", "follow", "rightClickItem", "rightClickBlock", "attackLoop", "afk"}

\* tasks whose handler never settles its promise on its own
IsInfinite(t) ==
    \/ t.type \in {"follow", "afk", "attackLoop"}
    \/ t.type \in {"rightClickItem", "rightClickBlock"} /\ t.times = 0

GoalNone == "none"
GoalNear == "near"

(* ------------------------------ state.json ----------------------------- *)
\* the file: absent, unreadable, not JSON, JSON of another shape, or a snapshot
File(kind, q, a) == [kind |-> kind, queue |-> q, active |-> a]

SnapshotFile(q, a) == File("snapshot", q, a)

BadFiles ==
    {File(k, <<>>, Null) : k \in {"absent", "unreadable", "unparseable", "emptyObject", "jsonNull"}}

\* the (type, times) of the tasks a hand-written state.json holds.  In the
\* queue: a task that succeeds and one that can fail.  In the active slot:
\* these, the tasks no chat command builds (counted clicks, an unknown type)
\* and the default afk; follow, attackLoop and the uncounted clicks come from
\* chat commands.
QueueTaskKinds == {<<"wait", 0>>, <<"goto", 0>>}

FileTaskKinds ==
    {<<"wait", 0>>, <<"goto", 0>>, <<"rightClickItem", MaxTimes>>,
     <<"rightClickBlock", MaxTimes>>, <<"afk", 0>>, <<"dance", 0>>}

\* the tasks with coordinates have numbers there
FileTask(k, id) ==
    [Task(k[1], id, k[2]) EXCEPT !.pos = IF k[1] \in {"goto", "rightClickBlock"} THEN "num" ELSE "none"]

FileQueues ==
    UNION {{[i \in 1..n |-> FileTask(ks[i], i)] : ks \in [1..n -> QueueTaskKinds]} : n \in 0..MaxTasks}

FileActives(q) ==
    {Null} \cup {FileTask(k, Len(q) + 1) : k \in {x \in FileTaskKinds : Len(q) < MaxTasks}}

SnapshotFiles == UNION {{SnapshotFile(q, a) : a \in FileActives(q)} : q \in FileQueues}

Files == BadFiles \cup SnapshotFiles

(* ------------------------------ variables ------------------------------ *)
VARIABLES
    proc,          \* the process: "off", "up", "crashed", "exited"
    spawned,       \* the session has spawned (chat listener, runLoop started)
    entity,        \* bot.entity is set: `bot` is a client that has logged in
    controlUsers,  \* CFG.controlUsers
    disk,          \* the content of state.json
    queue,         \* state.queue
    active,        \* state.active
    intervals,     \* the ids registered by setManagedInterval
    live,          \* the interval timers that are scheduled
    goal,          \* the goal last given to bot.pathfinder.setGoal
    listeners,     \* goal_reached / path_reset listeners of waitForGoalOrTimeout on the client `bot` names
    orphans,       \* such listeners left on a client that `bot` no longer names
    doneCalls,     \* history: calls of done() by cleanup for the goto wait created last
    running,       \* runLoop's re-entrancy flag
    pc,            \* where runLoop is suspended
    hp,            \* where the handler awaited by runLoop is suspended
    cur,           \* runLoop's local `task`
    count,         \* `count` of the running rightClick handler
    inflight,      \* ticks of the last rightClickBlock execution that await bot.lookAt
    pushed,        \* history: ids entered into the queue since the last stop, in order
    promoted,      \* history: ids promoted to the active slot since the last stop, in order
    completed,     \* history: ids whose execution returned since the last stop
    attempts,      \* history: executions of the task in the active slot (saturating)
    last,          \* the callback that ran last
    entities,      \* bot.entities as pickAttackTarget enumerates it
    best           \* what pickAttackTarget returned: an index of entities, 0 for null, -1 before the call

progVars == <<entity, queue, active, disk, intervals, live, goal, listeners, orphans, doneCalls,
              running, pc, hp, cur,
              count, inflight, pushed, promoted, completed, attempts>>

vars == <<proc, spawned, controlUsers, last, entities, best, progVars>>

\* the program state as one value, for the operators that model functions
Pack ==
    [entity |-> entity,
     queue |-> queue, active |-> active, disk |-> disk, intervals |-> intervals,
     live |-> live, goal |-> goal, listeners |-> listeners, orphans |-> orphans,
     doneCalls |-> doneCalls, running |-> running,
     pc |-> pc, hp |-> hp, cur |-> cur, count |-> count, inflight |-> inflight,
     pushed |-> pushed, promoted |-> promoted,
     completed |-> completed, attempts |-> attempts]

Unpack(S) ==
    /\ entity' = S.entity
    /\ queue' = S.queue /\ active' = S.active /\ disk' = S.disk
    /\ intervals' = S.intervals /\ live' = S.live /\ goal' = S.goal
    /\ listeners' = S.listeners /\ orphans' = S.orphans /\ doneCalls' = S.doneCalls
    /\ running' = S.running /\ pc' = S.pc /\ hp' = S.hp
    /\ cur' = S.cur /\ count' = S.count /\ inflight' = S.inflight
    /\ pushed' = S.pushed /\ promoted' = S.promoted
    /\ completed' = S.completed /\ attempts' = S.attempts

\* the record of the callback that ran last: op is "startup", "spawn", "chat",
\* "end", or "callback" for a timer, a planner event or a continuation
\* (of a chat message: its sender, whether it had the prefix, the command and
\* the arguments the dispatcher parsed, the reply sent; of a path_reset event:
\* its reason); changed: the callback changed the program's state
Ev(op) ==
    [op |-> op, user |-> "", prefixed |-> FALSE, cmd |-> "", argclass |-> "",
     reply |-> "none", reason |-> "", changed |-> TRUE]

\* the callback op takes the program to S
Step(op, S) == Unpack(S) /\ last' = [Ev(op) EXCEPT !.changed = (S # Pack)]

(* ------------------------------ the store ------------------------------ *)
\* the identity of a new task object
UsedIds(S) == {S.cur.id, S.active.id} \cup {S.queue[i].id : i \in 1..Len(S.queue)}

NewId(S) == CHOOSE i \in 1..(Len(S.queue) + 3) : i \notin UsedIds(S) /\ \A j \in 1..(i - 1) : j \in UsedIds(S)

\* what loadState returns: the snapshot, or the empty state when the file is
\* absent or reading/parsing throws; JSON of another shape is returned as parsed
loadState(f) ==
    IF f.kind \in {"absent", "unreadable", "unparseable"} THEN SnapshotFile(<<>>, Null) ELSE f

\* JSON.stringify of a task: NaN is written as null
stringify(t) == [t EXCEPT !.pos = IF @ = "NaN" THEN "null" ELSE @]

saveState(S) ==
    [S EXCEPT !.disk = SnapshotFile([i \in 1..Len(S.queue) |-> stringify(S.queue[i])],
                                    stringify(S.active))]

\* reading state.active of null, or state.queue.length of {}, throws a TypeError
ensureDefaultQueueThrows(st) == st.kind \in {"jsonNull", "emptyObject"}

\* S holds the loaded state; the default afk task is a new object
ensureDefaultQueue(S) ==
    IF S.active = Null /\ Len(S.queue) = 0
    THEN saveState([S EXCEPT !.queue = Append(@, Task("afk", NewId(S), 0)),
                             !.pushed = Append(@, NewId(S))])
    ELSE S

setManagedInterval(S, id) ==
    [S EXCEPT !.live = @ \cup {id}, !.intervals = @ \cup {id}]

stopAllIntervals(S) ==
    [S EXCEPT !.live = @ \ S.intervals, !.intervals = {}]

\* a guard that lets every sender through
isAllowedControllerOpen(users, username) == TRUE

isAllowedController(users, username) ==
    IF Cardinality(users) = 0 THEN TRUE ELSE username \in users

stopTasks(S) ==
    saveState([stopAllIntervals(S) EXCEPT !.goal = GoalNone, !.queue = <<>>, !.active = Null,
                                          !.pushed = <<>>, !.promoted = <<>>,
                                          !.completed = {}, !.attempts = 0])

\* a push that also puts the task into an empty active slot
pushTaskActivates(S, task) ==
    saveState([S EXCEPT !.queue = Append(@, task), !.pushed = Append(@, task.id),
                        !.active = IF @ = Null THEN task ELSE @])

pushTask(S, task) ==
    saveState([S EXCEPT !.queue = Append(@, task), !.pushed = Append(@, task.id)])

(* ------------------------------ task handlers -------------------------- *)
\* the promise awaited by runLoop settles: runLoop's continuation is next.
\* Ticks still awaiting their look-at stay pending.
Settle(S, outcome) ==
    [S EXCEPT !.pc = outcome, !.hp = "none"]

\* registers both listeners and the poll timer, which is a plain setInterval
waitForGoalOrTimeout(S) ==
    [S EXCEPT !.listeners = TRUE, !.live = @ \cup {"gotoPoll"}, !.hp = "gotoWait",
              !.doneCalls = 0]

\* cleanup(done) up to its call of done(), which it counts
cleanup(S) ==
    [S EXCEPT !.listeners = FALSE, !.live = @ \ {"gotoPoll"}, !.doneCalls = @ + 1]

\* taskGoto up to its await
taskGoto(S) == waitForGoalOrTimeout([S EXCEPT !.goal = GoalNear])

\* taskGoto after waitForGoalOrTimeout resolved
taskGotoArrived(S) == [S EXCEPT !.goal = GoalNone]

\* taskGoto after waitForGoalOrTimeout rejected: the rejection propagates
taskGotoFailed(S) == S

taskFollow(S) == [setManagedInterval(S, "follow") EXCEPT !.hp = "forever"]

taskAfk(S) == [setManagedInterval(S, "afk") EXCEPT !.hp = "forever"]

taskAttackLoop(S) == [setManagedInterval(S, "attackLoop") EXCEPT !.hp = "forever"]

taskRightClickItem(S) ==
    [setManagedInterval(S, "rightClickItem") EXCEPT !.count = 0, !.hp = "ticking"]

\* taskRightClickBlock up to the await of its internal goto
taskRightClickBlock(S) == taskGoto([S EXCEPT !.count = 0])

\* taskRightClickBlock after the internal goto returned
taskRightClickBlockLoop(S) ==
    [setManagedInterval(S, "rightClickBlock") EXCEPT !.hp = "ticking"]

\* count++ ; with times = 0 the count is never read and is not kept
Incr(S) == IF S.cur.times = 0 THEN S.count ELSE S.count + 1

\* an executeTask whose default case waits instead of throwing
executeTaskLenient(S, task) ==
    LET R == [S EXCEPT !.pc = "exec", !.inflight = 0]
    IN CASE task.type = "goto" -> taskGoto(R)
         [] task.type = "follow" -> taskFollow(R)
         [] task.type = "rightClickItem" -> taskRightClickItem(R)
         [] task.type = "rightClickBlock" -> taskRightClickBlock(R)
         [] task.type = "attackLoop" -> taskAttackLoop(R)
         [] task.type = "afk" -> taskAfk(R)
         [] OTHER -> [R EXCEPT !.hp = "sleep"]

\* Ticks of an earlier execution that still await their look-at are followed
\* no further once the next execution starts: count is its counter from then on.
executeTask(S, task) ==
    LET R == [S EXCEPT !.pc = "exec", !.inflight = 0]
    IN CASE task.type = "wait" -> [R EXCEPT !.hp = "sleep"]
         [] task.type = "goto" -> taskGoto(R)
         [] task.type = "follow" -> taskFollow(R)
         [] task.type = "rightClickItem" -> taskRightClickItem(R)
         [] task.type = "rightClickBlock" -> taskRightClickBlock(R)
         [] task.type = "attackLoop" -> taskAttackLoop(R)
         [] task.type = "afk" -> taskAfk(R)
         [] OTHER -> Settle(R, "threw")

(* ------------------------------ runLoop -------------------------------- *)
\* a promotion that reads the queue head and leaves it in the queue
runLoopShiftKeepsHead(S) ==
    IF Len(S.queue) = 0 THEN [S EXCEPT !.active = Null]
    ELSE [S EXCEPT !.active = Head(S.queue),
                   !.promoted = Append(@, Head(S.queue).id), !.attempts = 0]

\* a promotion that takes the newest task: pop() for shift()
runLoopShiftPop(S) ==
    IF Len(S.queue) = 0 THEN [S EXCEPT !.active = Null]
    ELSE [S EXCEPT !.active = S.queue[Len(S.queue)],
                   !.queue = SubSeq(S.queue, 1, Len(S.queue) - 1),
                   !.promoted = Append(@, S.queue[Len(S.queue)].id), !.attempts = 0]

\* state.active = state.queue.shift() || null
runLoopShift(S) ==
    IF Len(S.queue) = 0 THEN [S EXCEPT !.active = Null]
    ELSE [S EXCEPT !.active = Head(S.queue), !.queue = Tail(S.queue),
                   !.promoted = Append(@, Head(S.queue).id), !.attempts = 0]

\* a pass that promotes the queue head whether or not a task is active
runLoopIterAlwaysShifts(S) ==
    LET S1 == saveState(runLoopShift(S))
    IN IF S1.active = Null THEN [S1 EXCEPT !.pc = "idle", !.hp = "none"]
       ELSE executeTask([S1 EXCEPT !.cur = S1.active,
                                   !.attempts = IF @ < MaxAttempts THEN @ + 1 ELSE @],
                        S1.active)

\* one pass of the while loop, up to its next await
runLoopIter(S) ==
    LET S1 == IF S.active = Null THEN saveState(runLoopShift(S)) ELSE S
    IN IF S1.active = Null THEN [S1 EXCEPT !.pc = "idle", !.hp = "none"]
       ELSE executeTask([S1 EXCEPT !.cur = S1.active,
                                   !.attempts = IF @ < MaxAttempts THEN @ + 1 ELSE @],
                        S1.active)

\* while (bot && bot.entity): the next pass, or the loop is left (running
\* stays true)
runLoopWhile(S) ==
    IF S.entity THEN runLoopIter(S) ELSE [S EXCEPT !.pc = "done", !.hp = "none"]

\* a runLoop without its guard
runLoopUnguarded(S) == runLoopWhile([S EXCEPT !.running = TRUE])

\* runLoop called: the guard, then the first pass
runLoop(S) == IF S.running THEN S ELSE runLoopWhile([S EXCEPT !.running = TRUE])

\* after `await executeTask(task)` returned
runLoopReturned(S) ==
    runLoopWhile(saveState([S EXCEPT !.active = Null, !.completed = @ \cup {S.cur.id}]))

\* a catch block that moves the failed task to the queue tail
runLoopCatchRequeues(S) ==
    IF S.active = Null THEN [S EXCEPT !.pc = "backoff", !.hp = "none"]
    ELSE saveState([S EXCEPT !.pc = "backoff", !.hp = "none",
                             !.queue = Append(@, S.active), !.active = Null])

\* the catch block, up to `await sleep(2000)`
runLoopCatch(S) == [S EXCEPT !.pc = "backoff", !.hp = "none"]

(* ------------------------------ chat commands -------------------------- *)
BotName == "Bot"

Users == {BotName, "Alice", "Bob"}

Words ==
    {"help", "stop", "STOP", "afk", "goto", "follow", "rc", "rcblock", "lc", "attack",
     "attackcfg", "dance"}

toLowerCase(w) == IF w = "STOP" THEN "stop" ELSE w

\* const [x, y, z] = args: the words a command reads
ArgSlots == 3

ArgLists == UNION {[1..n -> Tokens] : n \in 0..ArgSlots}

\* a chat message: with the prefix or without, the command word, the words after it.
\* Words after the command are given to the commands that read them.
Messages ==
    {[prefixed |-> FALSE, word |-> "stop", args |-> <<>>]}
    \cup UNION {{[prefixed |-> TRUE, word |-> w, args |-> a] :
                    a \in IF w \in {"goto", "rcblock"} THEN ArgLists
                         ELSE IF w = "follow" THEN {<<>>, <<"x">>} ELSE {<<>>}} :
                w \in Words}

\* a command that pushes its task without stopping first
issueWithoutStop(S, type) == pushTask(S, Task(type, NewId(S), 0))

\* a task built by a command is a new object
issue(S, type) == pushTask(stopTasks(S), Task(type, NewId(stopTasks(S)), 0))

\* Number(w) of a chat word
Number(w) == IF w = "7" THEN "num" ELSE "NaN"

\* x: Number(x), y: Number(y), z: Number(z)
Coordinates(args) ==
    IF \E i \in 1..ArgSlots : Number(args[i]) = "NaN" THEN "NaN" ELSE "num"

\* a goto or rightClickBlock task built by a command
issueAt(S, type, args) ==
    pushTask(stopTasks(S),
             [Task(type, NewId(stopTasks(S)), 0) EXCEPT !.pos = Coordinates(args)])

Answer(S, reply) == [st |-> S, reply |-> reply]

\* [x, y, z].some(v => v === undefined)
someUndefined(args) == Len(args) < ArgSlots

onChat(S, users, username, m) ==
    LET cmd == toLowerCase(m.word)
        args == m.args
    IN IF username = BotName THEN Answer(S, "none")
       ELSE IF ~m.prefixed THEN Answer(S, "none")
       ELSE IF ~isAllowedController(users, username) THEN Answer(S, "none")
       ELSE CASE cmd = "help" -> Answer(S, "help")
              [] cmd = "stop" -> Answer(stopTasks(S), "stopped")
              [] cmd = "afk" -> Answer(issue(S, "afk"), "afkOn")
              [] cmd = "goto" ->
                    IF someUndefined(args) THEN Answer(S, "usageGoto")
                    ELSE Answer(issueAt(S, "goto", args), "going")
              [] cmd = "follow" ->
                    IF Len(args) = 0 THEN Answer(S, "usageFollow")
                    ELSE Answer(issue(S, "follow"), "following")
              [] cmd = "rc" -> Answer(issue(S, "rightClickItem"), "rcOn")
              [] cmd = "rcblock" ->
                    IF someUndefined(args) THEN Answer(S, "usageRcblock")
                    ELSE Answer(issueAt(S, "rightClickBlock", args), "rcblockOn")
              [] cmd \in {"lc", "attack"} -> Answer(issue(S, "attackLoop"), "attackOn")
              [] cmd = "attackcfg" -> Answer(S, "attackcfg")
              [] OTHER -> Answer(S, "unknown")

\* how a claim reads the words after a command: the coordinates are missing,
\* or one of them is no number, or all three are numbers
ArgClass(cmd, args) ==
    IF cmd \in {"goto", "rcblock"}
    THEN (IF Len(args) < 3 THEN "missing"
          ELSE IF \E i \in 1..3 : args[i] # "7" THEN "nonnum" ELSE "ok")
    ELSE IF cmd = "follow" /\ Len(args) = 0 THEN "missing" ELSE "ok"

\* the command and arguments are parsed once the sender has passed the guards
ChatEv(users, username, m, reply, changed) ==
    LET parsed == username # BotName /\ m.prefixed /\ (users = {} \/ username \in users)
    IN [op |-> "chat", user |-> username, prefixed |-> m.prefixed,
        cmd |-> IF parsed THEN toLowerCase(m.word) ELSE "",
        argclass |-> IF parsed THEN ArgClass(toLowerCase(m.word), m.args) ELSE "",
        reply |-> reply, reason |-> "", changed |-> changed]

(* ------------------------------ actions -------------------------------- *)
\* the process is up and no microtask is pending
Quiet == proc = "up" /\ pc \notin {"returned", "threw"}

\* the memory of a process that has not run yet, beside the file f
Fresh(f) ==
    [entity |-> FALSE,
     queue |-> <<>>, active |-> Null, disk |-> f, intervals |-> {}, live |-> {},
     goal |-> GoalNone, listeners |-> FALSE, orphans |-> FALSE, doneCalls |-> 0,
     running |-> FALSE, pc |-> "none",
     hp |-> "none", cur |-> Null, count |-> 0, inflight |-> 0,
     pushed |-> <<>>, promoted |-> <<>>, completed |-> {},
     attempts |-> 0]

Init ==
    /\ proc = "off" /\ spawned = FALSE /\ entity = FALSE
    /\ controlUsers \in {{}, {"Alice"}}
    /\ disk \in Files
    /\ queue = <<>> /\ active = Null
    /\ intervals = {} /\ live = {} /\ goal = GoalNone /\ listeners = FALSE
    /\ orphans = FALSE /\ doneCalls = 0
    /\ running = FALSE /\ pc = "none" /\ hp = "none" /\ cur = Null
    /\ count = 0 /\ inflight = 0
    /\ pushed = <<>> /\ promoted = <<>> /\ completed = {} /\ attempts = 0
    /\ last = Ev("none")
    /\ entities = <<>> /\ best = -1

\* the module is evaluated: state = loadState(); ensureDefaultQueue(); startBot()
Startup ==
    /\ proc = "off"
    /\ LET st == loadState(disk)
       IN IF ensureDefaultQueueThrows(st)
          THEN /\ proc' = "crashed"
               /\ Unpack(Fresh(disk))
          ELSE /\ proc' = "up"
               /\ Unpack(ensureDefaultQueue([Pack EXCEPT !.queue = st.queue, !.active = st.active,
                                                      !.pushed = [i \in 1..Len(st.queue) |-> st.queue[i].id]]))
    /\ last' = Ev("startup")
    /\ UNCHANGED <<spawned, controlUsers, entities, best>>

\* bot.once('spawn') of a client that has logged in: the chat listener is
\* added and runLoop is called
Spawn ==
    /\ Quiet /\ ~spawned /\ ~entity
    /\ spawned' = TRUE
    /\ Step("spawn", runLoop([Pack EXCEPT !.entity = TRUE]))
    /\ UNCHANGED <<proc, controlUsers, entities, best>>

\* bot.on('chat') for one message
ChatOf(u, m) ==
    /\ Quiet /\ spawned
    /\ LET r == onChat(Pack, controlUsers, u, m)
       IN /\ Unpack(r.st)
          /\ last' = ChatEv(controlUsers, u, m, r.reply, r.st # Pack)
    /\ UNCHANGED <<proc, spawned, controlUsers, entities, best>>

\* bot.on('chat').  A message that changed nothing is not followed at once by
\* another message: that one would meet the same program state.
Chat ==
    /\ last.changed
    /\ \E u \in Users, m \in Messages : ChatOf(u, m)

\* process.exit(1): the memory of the process is gone, the file stays
exit(S) == Fresh(S.disk)

\* bot.on('end'): stopAllIntervals(), then both branches exit the process
End ==
    /\ Quiet
    /\ Unpack(exit(stopAllIntervals(Pack)))
    /\ proc' = "exited"
    /\ spawned' = FALSE
    /\ last' = Ev("end")
    /\ UNCHANGED <<controlUsers, entities, best>>

\* the continuation of runLoop after executeTask returned
RunnerReturned ==
    /\ proc = "up" /\ pc = "returned"
    /\ Step("callback", runLoopReturned(Pack))
    /\ UNCHANGED <<proc, spawned, controlUsers, entities, best>>

\* the continuation of runLoop after executeTask threw
RunnerCatch ==
    /\ proc = "up" /\ pc = "threw"
    /\ Step("callback", runLoopCatch(Pack))
    /\ UNCHANGED <<proc, spawned, controlUsers, entities, best>>

\* sleep(1500) of the idle branch is over
IdleWake ==
    /\ Quiet /\ pc = "idle"
    /\ Step("callback", runLoopWhile(Pack))
    /\ UNCHANGED <<proc, spawned, controlUsers, entities, best>>

\* sleep(2000) of the catch block is over
BackoffWake ==
    /\ Quiet /\ pc = "backoff"
    /\ Step("callback", runLoopWhile(Pack))
    /\ UNCHANGED <<proc, spawned, controlUsers, entities, best>>

\* the sleep of a wait task is over
WaitDone ==
    /\ Quiet /\ pc = "exec" /\ hp = "sleep"
    /\ Step("callback", Settle(Pack, "returned"))
    /\ UNCHANGED <<proc, spawned, controlUsers, entities, best>>

(* ------------------------------ goto wait ------------------------------ *)
\* onGoal: cleanup(resolve), then taskGoto clears the goal and returns; inside
\* rightClickBlock the tick loop starts, else executeTask returns
\* resolve and reject do nothing once the promise of the wait is settled
waiting(S) == S.pc = "exec" /\ S.hp = "gotoWait"

onGoal(S) ==
    LET S1 == taskGotoArrived(cleanup(S))
    IN IF ~waiting(S) THEN cleanup(S)
       ELSE IF S.cur.type = "rightClickBlock" THEN taskRightClickBlockLoop(S1)
       ELSE Settle(S1, "returned")

\* cleanup(() => reject(...)): the rejection passes through taskGoto (and
\* taskRightClickBlock) to runLoop
rejectWait(S) ==
    IF ~waiting(S) THEN cleanup(S) ELSE Settle(taskGotoFailed(cleanup(S)), "threw")

PathResetReasons == {"noPath", "stuck", "goal_updated"}

onReset(S, reason) ==
    IF reason = "noPath" \/ reason = "stuck" THEN rejectWait(S) ELSE S

\* the 500 ms poll: expired stands for Date.now() - start > timeoutMs
pollTick(S, expired) == IF expired THEN rejectWait(S) ELSE S

\* the planner of the connected client reaches the goal it was given
GoalReached ==
    /\ Quiet /\ spawned /\ listeners /\ goal = GoalNear
    /\ Step("callback", onGoal(Pack))
    /\ UNCHANGED <<proc, spawned, controlUsers, entities, best>>

\* the planner resets its path
PathReset ==
    /\ Quiet /\ spawned /\ listeners /\ goal = GoalNear
    /\ \E reason \in PathResetReasons :
         LET S == onReset(Pack, reason)
         IN /\ Unpack(S)
            /\ last' = [Ev("callback") EXCEPT !.reason = reason, !.changed = (S # Pack)]
    /\ UNCHANGED <<proc, spawned, controlUsers, entities, best>>

PollTickOf(expired) ==
    /\ Quiet /\ "gotoPoll" \in live
    /\ Step("callback", pollTick(Pack, expired))
    /\ UNCHANGED <<proc, spawned, controlUsers, entities, best>>

PollTick == \E expired \in BOOLEAN : PollTickOf(expired)

(* ------------------------------ tick callbacks ------------------------- *)
clearInterval(S, id) == [S EXCEPT !.live = @ \ {id}]

\* a tick that completes one click late: count > times for count >= times
rightClickItemTickLate(S, throws) ==
    IF throws THEN Settle(clearInterval(S, "rightClickItem"), "threw")
    ELSE LET n == Incr(S)
         IN IF S.cur.times > 0 /\ n > S.cur.times
            THEN Settle(clearInterval([S EXCEPT !.count = n], "rightClickItem"), "returned")
            ELSE [S EXCEPT !.count = n]

\* one tick of taskRightClickItem; throws: bot.activateItem() throws
rightClickItemTick(S, throws) ==
    IF throws THEN Settle(clearInterval(S, "rightClickItem"), "threw")
    ELSE LET n == Incr(S)
         IN IF S.cur.times > 0 /\ n >= S.cur.times
            THEN Settle(clearInterval([S EXCEPT !.count = n], "rightClickItem"), "returned")
            ELSE [S EXCEPT !.count = n]

\* one tick of taskRightClickBlock up to its await (or its return)
rightClickBlockTick(S, outcome) ==
    CASE outcome = "noBlock" -> S
      [] outcome = "tooFar" -> [S EXCEPT !.goal = GoalNear]
      [] outcome = "look" -> [S EXCEPT !.inflight = @ + 1]
      [] OTHER -> Settle(clearInterval(S, "rightClickBlock"), "threw")

\* a tick after `await bot.lookAt(...)`: activateBlock, count++, the test of
\* count; ok: neither call threw.  Once the handler's promise is settled,
\* resolve, reject and clearInterval do nothing more.
lookAtDone(S, ok) ==
    LET S1 == [S EXCEPT !.inflight = @ - 1]
        n == Incr(S)
        pending == S.pc = "exec" /\ S.hp = "ticking"
    IN IF ~ok
       THEN (IF pending THEN Settle(clearInterval(S1, "rightClickBlock"), "threw") ELSE S1)
       ELSE IF pending /\ S.cur.times > 0 /\ n >= S.cur.times
            THEN Settle(clearInterval([S1 EXCEPT !.count = n], "rightClickBlock"), "returned")
            ELSE [S1 EXCEPT !.count = n]

ItemTick ==
    /\ Quiet /\ "rightClickItem" \in live
    /\ \E throws \in BOOLEAN : Step("callback", rightClickItemTick(Pack, throws))
    /\ UNCHANGED <<proc, spawned, controlUsers, entities, best>>

BlockTick ==
    /\ Quiet /\ "rightClickBlock" \in live
    /\ \E outcome \in {"noBlock", "tooFar", "look", "throw"} :
         /\ outcome = "look" => inflight < MaxInflight
         /\ Step("callback", rightClickBlockTick(Pack, outcome))
    /\ UNCHANGED <<proc, spawned, controlUsers, entities, best>>

LookAtDone ==
    /\ Quiet /\ inflight > 0
    /\ \E ok \in BOOLEAN : Step("callback", lookAtDone(Pack, ok))
    /\ UNCHANGED <<proc, spawned, controlUsers, entities, best>>

\* one tick of taskFollow; visible: the player's entity is known
followTick(S, visible) == IF visible THEN [S EXCEPT !.goal = GoalNear] ELSE S

\* a tick of follow, afk or attackLoop; an exception thrown by one is caught by
\* nothing and ends the process
ForeverTick ==
    /\ Quiet
    /\ \E id \in {"follow", "afk", "attackLoop"} \cap live, throws \in BOOLEAN, visible \in BOOLEAN :
         IF throws
         THEN proc' = "crashed" /\ spawned' = FALSE /\ Step("callback", exit(Pack))
         ELSE /\ proc' = proc /\ spawned' = spawned
              /\ Step("callback", IF id = "follow" THEN followTick(Pack, visible) ELSE Pack)
    /\ UNCHANGED <<controlUsers, entities, best>>

(* ------------------------------ specification -------------------------- *)
Next ==
    \/ Startup
    \/ Spawn
    \/ Chat
    \/ End
    \/ RunnerReturned
    \/ RunnerCatch
    \/ IdleWake
    \/ BackoffWake
    \/ WaitDone
    \/ GoalReached
    \/ PathReset
    \/ PollTick
    \/ ItemTick
    \/ BlockTick
    \/ LookAtDone
    \/ ForeverTick

Spec == Init /\ [][Next]_vars

\* timers fire and continuations run; chat, the planner's events and the end
\* of the session are the environment's choice
FairSpec ==
    /\ Spec
    /\ WF_vars(Startup) /\ WF_vars(Spawn)
    /\ WF_vars(RunnerReturned) /\ WF_vars(RunnerCatch)
    /\ WF_vars(IdleWake) /\ WF_vars(BackoffWake) /\ WF_vars(WaitDone)
    /\ WF_vars(PollTickOf(TRUE))

(* ------------------------------ target selector ----------------------- *)
\* Distances are in tenths of a block, cosines and scores in hundredths.

\* CFG.attackRange (3.2), CFG.attackFovDot (0.92), CFG.attackTypes
AttackRange == 32

AttackFovDot == 92

AttackTypes == {"mob"}

\* an entity as the selector reads it: its type, whether it is bot.entity,
\* its distance from the eye, bot.canSeeEntity(e), and the dot product of the
\* look direction with the unit vector towards it
Entity(kind, self, dist, visible, cos) ==
    [kind |-> kind, self |-> self, dist |-> dist, visible |-> visible, cos |-> cos]

\* inside the range, exactly at it, beyond it
Dists == {AttackRange - 12, AttackRange, AttackRange + 1}

\* outside the field of view, exactly at its edge, dead ahead
Cosines == {AttackFovDot - 1, AttackFovDot, 100}

\* entities that fail at most one of the kind, self and visibility tests
Entities ==
    {Entity(k[1], k[2], d, k[3], c) :
        k \in {<<"mob", FALSE, TRUE>>, <<"object", FALSE, TRUE>>,
               <<"mob", TRUE, TRUE>>, <<"mob", FALSE, FALSE>>},
        d \in Dists, c \in Cosines}

EntityLists == UNION {[1..n -> Entities] : n \in 0..MaxEntities}

\* a range test that also rejects the boundary
rangeRejectsBoundary(dist) == dist >= AttackRange

\* if (dist > CFG.attackRange) continue
rangeRejects(dist) == dist > AttackRange

\* score * 2.0 + (CFG.attackRange - dist)
total(e) == 2 * e.cos + 10 * (AttackRange - e.dist)

\* a comparison that lets a later entity win a tie
improvesOrTies(t, b, bestScore) == b = 0 \/ t >= bestScore

\* if (total > bestScore): bestScore is -Infinity while best is null
improves(t, b, bestScore) == b = 0 \/ t > bestScore

\* the for loop from entity i on, with best (0 for null) and bestScore so far
RECURSIVE pickFrom(_, _, _, _)
pickFrom(es, i, b, bestScore) ==
    IF i > Len(es) THEN b
    ELSE LET e == es[i]
         IN IF \/ e.kind \notin AttackTypes
               \/ e.self
               \/ rangeRejects(e.dist)
               \/ ~e.visible
               \/ e.cos < AttackFovDot
            THEN pickFrom(es, i + 1, b, bestScore)
            ELSE IF improves(total(e), b, bestScore)
                 THEN pickFrom(es, i + 1, i, total(e))
                 ELSE pickFrom(es, i + 1, b, bestScore)

pickAttackTarget(es) == pickFrom(es, 1, 0, 0)

\* the selector is called on a world snapshot; the bot itself is not started
SelectorInit ==
    /\ proc = "off" /\ spawned = FALSE /\ entity = FALSE
    /\ controlUsers = {}
    /\ disk = File("absent", <<>>, Null)
    /\ queue = <<>> /\ active = Null
    /\ intervals = {} /\ live = {} /\ goal = GoalNone /\ listeners = FALSE
    /\ orphans = FALSE /\ doneCalls = 0
    /\ running = FALSE /\ pc = "none" /\ hp = "none" /\ cur = Null
    /\ count = 0 /\ inflight = 0
    /\ pushed = <<>> /\ promoted = <<>> /\ completed = {} /\ attempts = 0
    /\ last = Ev("none")
    /\ entities \in EntityLists /\ best = -1

PickTarget ==
    /\ best = -1
    /\ best' = pickAttackTarget(entities)
    /\ UNCHANGED <<proc, spawned, controlUsers, last, entities, progVars>>

SelectorNext == PickTarget

SelectorSpec == SelectorInit /\ [][SelectorNext]_vars

(* ------------------------------ reconnect mode ------------------------- *)
\* src/bot.js with exitOnDisconnect off.  Its store, runLoop and handlers are
\* those above (it has no chat commands, no follow and no attackLoop; its
\* sleeps are 2000 and 3000 ms).

\* bot.on('end') in reconnect mode: stopAllIntervals(), then
\* setTimeout(startBot, reconnectDelay).  `bot` is still the client that
\* ended: it keeps its entity and its listeners, and it emits no planner event
\* any more.
EndReconnect ==
    /\ Quiet /\ spawned
    /\ spawned' = FALSE
    /\ Step("end", stopAllIntervals(Pack))
    /\ UNCHANGED <<proc, controlUsers, entities, best>>

\* the reconnect timer fires: startBot() assigns a new client to `bot`, which
\* has no entity until it logs in and none of the listeners of the old one
Reconnect ==
    /\ Quiet /\ ~spawned /\ entity
    /\ Step("callback", [Pack EXCEPT !.entity = FALSE, !.listeners = FALSE,
                                      !.orphans = @ \/ listeners])
    /\ UNCHANGED <<proc, spawned, controlUsers, entities, best>>

ReconnectInit == Init /\ controlUsers = {}

ReconnectNext ==
    \/ Startup
    \/ Spawn
    \/ EndReconnect
    \/ Reconnect
    \/ RunnerReturned
    \/ RunnerCatch
    \/ IdleWake
    \/ BackoffWake
    \/ WaitDone
    \/ GoalReached
    \/ PathReset
    \/ PollTick
    \/ ItemTick
    \/ BlockTick
    \/ LookAtDone
    \/ ForeverTick

ReconnectSpec == ReconnectInit /\ [][ReconnectNext]_vars

\* timers fire, continuations run, and the server lets the client in
ReconnectFairSpec ==
    /\ ReconnectSpec
    /\ WF_vars(Startup) /\ WF_vars(Spawn) /\ WF_vars(Reconnect)
    /\ WF_vars(RunnerReturned) /\ WF_vars(RunnerCatch)
    /\ WF_vars(IdleWake) /\ WF_vars(BackoffWake) /\ WF_vars(WaitDone)
    /\ WF_vars(PollTickOf(TRUE))

TypeOK ==
    /\ proc \in {"off", "up", "crashed", "exited"}
    /\ pc \in {"none", "idle", "exec", "returned", "threw", "backoff", "done"}
    /\ hp \in {"none", "sleep", "gotoWait", "ticking", "forever"}
    /\ live \subseteq {"gotoPoll", "follow", "afk", "attackLoop", "rightClickItem", "rightClickBlock"}
    /\ count \in 0..(MaxTimes + MaxInflight) /\ inflight \in 0..MaxInflight
    /\ listeners \in BOOLEAN /\ orphans \in BOOLEAN /\ doneCalls \in Nat


(* ------------------------------ C1 ------------------------------------- *)
\* the runner is suspended in a task that never settles, and stop has taken
\* that task out of the active slot
StoppedInfinite == proc = "up" /\ pc = "exec" /\ IsInfinite(cur) /\ active # cur

\* C1: if stop is invoked while an infinite task is the active task, control
\* returns to the Queue Runner: a task pushed after that stop is eventually
\* promoted to the active slot (unless the session ends or a later stop
\* empties the queue again), under fair scheduling of the timers.
C1_StopReturnsControl ==
    <>[][last'.op # "chat"]_vars =>
        ((StoppedInfinite /\ queue # <<>>) ~> (active # Null \/ queue = <<>> \/ proc # "up"))

(* ------------------------------ C2 ------------------------------------- *)
\* C2: immediately after stop is invoked, whatever task was active and in
\* whatever phase, the queue is empty, the active slot is null and no periodic
\* callback created by a task handler is live.
C2_StopClearsEverything ==
    (last.op = "chat" /\ last.cmd = "stop") =>
        (queue = <<>> /\ active = Null /\ live = {})

(* ------------------------------ C3 ------------------------------------- *)
\* the runner puts a task in the active slot
Promotion == proc = "up" /\ active' # Null /\ active' # active

\* C3: in every reachable state the task in the active slot is not an element
\* of the queue, and a promotion removes exactly the queue head and places it
\* in the active slot.
C3_ActiveNotQueued ==
    /\ [](active # Null => \A i \in 1..Len(queue) : queue[i].id # active.id)
    /\ [][Promotion => (queue # <<>> /\ active' = Head(queue) /\ queue' = Tail(queue))]_vars

\* a task was promoted out of a queue that holds more tasks
C3_Witness ==
    /\ active # Null /\ queue # <<>> /\ promoted # <<>>
    /\ active.id = promoted[Len(promoted)]

(* ------------------------------ C4 ------------------------------------- *)
\* C4: for pushes with no intervening stop, tasks are promoted in push order:
\* the promoted tasks are a prefix of the pushed ones (none skipped, none
\* promoted twice), and a task is promoted only after every task promoted
\* before it has completed.
C4_PromotionInPushOrder ==
    /\ Len(promoted) <= Len(pushed)
    /\ \A i \in 1..Len(promoted) : promoted[i] = pushed[i]
    /\ \A i \in 1..(Len(promoted) - 1) : promoted[i] \in completed

\* three tasks A, B, C were pushed and the third is now promoted
C4_Witness ==
    /\ Len(pushed) = 3 /\ Len(promoted) = 3
    /\ active # Null /\ active.id = pushed[3]

(* ------------------------------ C5 ------------------------------------- *)
\* C5: when the execution of the active task fails, the active slot and the
\* queue are left unchanged, by the failure and by the catch block, and the
\* pass after the backoff executes the same task again, without a retry limit
\* and without moving the task to the queue tail.
C5_FailedTaskIsRetried ==
    [][/\ (proc = "up" /\ pc = "exec" /\ pc' = "threw" /\ active = cur) =>
              (active' = active /\ queue' = queue)
       /\ (proc = "up" /\ pc = "threw" /\ active # Null) =>
              (pc' = "backoff" /\ active' = active /\ queue' = queue)
       /\ (proc = "up" /\ pc = "backoff" /\ pc' # "backoff" /\ proc' = "up" /\ active # Null) =>
              (/\ pc' \in {"exec", "threw"}
               /\ cur' = active /\ active' = active /\ queue' = queue
               /\ attempts' = IF attempts < MaxAttempts THEN attempts + 1 ELSE attempts)]_vars

\* a goto that failed is being executed again, with tasks waiting behind it
C5_Witness ==
    /\ pc = "exec" /\ cur.type = "goto" /\ active = cur
    /\ attempts = MaxAttempts /\ queue # <<>>

(* ------------------------------ C6 ------------------------------------- *)
\* C6: if the snapshot loaded at process start has a non-null active task,
\* startup seeds nothing (the store is the snapshot and the file is left as
\* found), and the first pass of the Queue Runner executes exactly that task
\* and leaves the loaded queue unchanged.
C6_ResumeActiveTask ==
    [][/\ (proc = "off" /\ disk.kind = "snapshot" /\ disk.active # Null) =>
              (proc' = "up" /\ queue' = disk.queue /\ active' = disk.active /\ disk' = disk)
       /\ (proc = "up" /\ ~spawned /\ spawned' /\ disk.kind = "snapshot" /\ disk.active # Null) =>
              (/\ pc' \in {"exec", "threw"}
               /\ cur' = disk.active /\ active' = disk.active
               /\ queue' = disk.queue /\ disk' = disk)]_vars

\* the first pass has started the task found in the active slot of the file
C6_Witness ==
    /\ last.op = "spawn" /\ active # Null /\ cur = active /\ promoted = <<>>
    /\ queue # <<>> /\ disk = SnapshotFile(queue, active)

(* ------------------------------ C7 ------------------------------------- *)
\* C7: whenever the goto handler exits, by arrival, by a planner noPath or
\* stuck signal, or by the timeout, the movement goal has been cleared by the
\* time the handler's result reaches the Queue Runner.
C7_GotoExitClearsGoal ==
    (proc = "up" /\ pc \in {"returned", "threw"} /\ cur.type = "goto") => goal = GoalNone

(* ------------------------------ C8 ------------------------------------- *)
Usage(cmd) == IF cmd = "goto" THEN "usageGoto" ELSE "usageRcblock"

\* C8: a goto or rcblock command from an authorized sender whose coordinates
\* are missing or non-numeric is answered with the usage string and changes
\* nothing: queue, active slot, live tick callbacks and movement goal.
C8_BadCoordinatesRejected ==
    [][(/\ last'.op = "chat" /\ last'.cmd \in {"goto", "rcblock"}
        /\ last'.argclass \in {"missing", "nonnum"}) =>
           (/\ last'.reply = Usage(last'.cmd)
            /\ UNCHANGED <<queue, active, live, intervals, goal>>)]_vars

(* ------------------------------ C9 ------------------------------------- *)
\* C9: with a non-empty authorized-operator set, a prefixed command from a
\* sender outside the set leaves queue, active slot, tick callbacks and
\* movement goal unchanged and sends no reply; with an empty set, every sender
\* but the agent itself is handled as authorized (the command is answered).
C9_UnauthorizedIgnored ==
    [][(last'.op = "chat" /\ last'.prefixed /\ last'.user # BotName) =>
           IF controlUsers # {} /\ last'.user \notin controlUsers
           THEN /\ last'.reply = "none"
                /\ UNCHANGED <<queue, active, disk, live, intervals, goal>>
           ELSE last'.reply # "none"]_vars

\* a stranger's prefixed command met a running task and was ignored
C9_Witness ==
    /\ last.op = "chat" /\ last.prefixed /\ last.user = "Bob" /\ controlUsers = {"Alice"}
    /\ last.reply = "none" /\ active # Null /\ live # {}

(* ------------------------------ C10 ------------------------------------ *)
\* C10: whatever is wrong with the snapshot file at startup (absent,
\* unreadable, not parseable, parseable but of another shape), startup
\* completes without an error, the store becomes queue = [one afk task],
\* active = null, and that seeded state is persisted.
C10_BadFileSeedsDefault ==
    [][(proc = "off" /\ disk.kind # "snapshot") =>
           (/\ proc' = "up"
            /\ Len(queue') = 1 /\ queue'[1].type = "afk" /\ active' = Null
            /\ disk' = SnapshotFile(queue', active'))]_vars

(* ------------------------------ C11 ------------------------------------ *)
\* C11: at every point where control can leave the single thread (each
\* suspension point of the Queue Runner, the return of each command handler)
\* the persisted snapshot equals the in-memory queue and active task, so a
\* restart after a kill at that point loads exactly that queue and active task.
C11_SnapshotMatchesMemory ==
    proc = "up" => loadState(disk) = SnapshotFile(queue, active)

(* ------------------------------ C12 ------------------------------------ *)
IssueReplies == {"afkOn", "going", "following", "rcOn", "rcblockOn", "attackOn"}

IssuedType(reply) ==
    CASE reply = "afkOn" -> "afk"
      [] reply = "going" -> "goto"
      [] reply = "following" -> "follow"
      [] reply = "rcOn" -> "rightClickItem"
      [] reply = "rcblockOn" -> "rightClickBlock"
      [] OTHER -> "attackLoop"

\* C12: right after a task-issuing command with valid arguments from an
\* authorized sender, in whatever state it was issued, the store is exactly
\* queue = [the newly built task], active = null, and no managed tick callback
\* is live: nothing ran between the command's stop and its push.
C12_IssueReplacesEverything ==
    (last.op = "chat" /\ last.reply \in IssueReplies /\ last.argclass = "ok") =>
        /\ Len(queue) = 1 /\ queue[1].type = IssuedType(last.reply)
        /\ queue[1].id # cur.id
        /\ active = Null
        /\ intervals = {} /\ live \subseteq {"gotoPoll"}

\* follow was issued while a click loop was running
C12_Witness ==
    /\ last.op = "chat" /\ last.reply = "following"
    /\ pc = "exec" /\ cur.type = "rightClickItem" /\ hp = "ticking"
    /\ Len(queue) = 1 /\ queue[1].type = "follow" /\ active = Null

(* ------------------------------ C13 ------------------------------------ *)
\* the running handler is the one of a rightClickItem task
ItemHandler == proc = "up" /\ cur.type = "rightClickItem"

\* C13: a rightClickItem task with repeat count n > 0, run without a stop and
\* without an activate-item error, activates the item exactly n times (count
\* is the number of activations that returned), then completes once: its tick
\* callback is cleared and the Queue Runner clears the active slot.  With
\* n = 0 it never completes.
C13_ItemClicksExactlyN ==
    /\ []((ItemHandler /\ pc = "exec" /\ hp = "ticking" /\ cur.times > 0) =>
             count < cur.times)
    /\ []((ItemHandler /\ pc = "returned") =>
             (cur.times > 0 /\ count = cur.times /\ "rightClickItem" \notin live))
    /\ [][(ItemHandler /\ pc = "returned" /\ active = cur) =>
             (active' # cur /\ cur.id \in completed' /\ "rightClickItem" \notin live')]_vars

\* the last of the n clicks has just completed the task
C13_Witness ==
    /\ ItemHandler /\ pc = "returned" /\ active = cur
    /\ cur.times = MaxTimes /\ count = MaxTimes

(* ------------------------------ C14 ------------------------------------ *)
\* C14: a rightClickBlock task with repeat count n > 0, run without a stop or
\* error, activates the block exactly n times in total (count is the number
\* of activations of the execution), also when a tick's look-at is still
\* pending as the next tick fires: overlapping ticks never push the number of
\* activations above n.
C14_BlockClicksAtMostN ==
    (proc = "up" /\ cur.type = "rightClickBlock" /\ cur.times > 0) => count <= cur.times

(* ------------------------------ C15 ------------------------------------ *)
\* C15: an exception thrown by a per-tick action of any task type is caught
\* at the Queue Runner level as a failure of the active task (backoff and
\* retry follow); it never escapes as an uncaught error: no timer callback
\* ends the process.
C15_TickErrorsCaught ==
    last.op = "callback" => proc = "up"

(* ------------------------------ C16 ------------------------------------ *)
\* the runner is inside an execution of the active task whose timers and
\* listeners are in place
Executing ==
    /\ pc = "exec" /\ cur = active
    /\ CASE cur.type = "wait" -> hp = "sleep"
         [] cur.type = "goto" -> listeners /\ "gotoPoll" \in live
         [] cur.type = "rightClickBlock" ->
               (listeners /\ "gotoPoll" \in live) \/ "rightClickBlock" \in live
         [] OTHER -> cur.type \in live

\* C16: in reconnect mode, once a session has spawned (the first one, or a
\* fresh one after the previous session ended), a Queue Runner loop is
\* running and the persisted active task is executed against that session
\* with its tick callbacks registered, unless the session ends or the task
\* completes first.
C16_ResumedAfterReconnect ==
    (proc = "up" /\ spawned /\ active.type \in KnownTypes) ~>
        (Executing \/ active = Null \/ ~spawned \/ proc # "up")

(* ------------------------------ C17 ------------------------------------ *)
\* C17: at most one instance of the Queue Runner loop is executing: a call to
\* runLoop made while an instance is running (the spawn of a later session)
\* returns at once and neither reads nor changes the queue, the active slot,
\* the tick callbacks or the position of the running instance.
C17_SingleRunner ==
    [][(proc = "up" /\ ~spawned /\ spawned' /\ running) =>
           UNCHANGED <<queue, active, disk, intervals, live, goal, listeners, running,
                       pc, hp, cur, count, inflight>>]_vars

\* a later session has spawned while the first instance was suspended in afk
C17_Witness ==
    /\ last.op = "spawn" /\ spawned /\ running
    /\ pc = "exec" /\ cur.type = "afk" /\ live = {}

(* ------------------------------ C18 ------------------------------------ *)
\* a task of no known type is in the active slot
UnknownActive == proc = "up" /\ active # Null /\ active.type \notin KnownTypes

\* C18: a task whose type is not one of the known variants fails on every
\* execution attempt without invoking a handler or registering a tick
\* callback, stays in the active slot and is attempted again after each
\* backoff; until a stop is issued no task queued behind it is promoted.
C18_UnknownTypeRetriedForever ==
    /\ []((UnknownActive /\ running) => (cur = active /\ pc \in {"threw", "backoff"} /\ hp = "none"))
    /\ [][UnknownActive =>
             \/ last'.op = "chat" \/ proc' # "up"
             \/ /\ active' = active /\ queue' = queue /\ promoted' = promoted
                /\ live' = live /\ intervals' = intervals
                /\ listeners' = listeners /\ goal' = goal
                /\ (pc = "backoff" => (pc' = "threw" /\ cur' = active))]_vars

\* the unknown task has failed again, with tasks waiting behind it
C18_Witness ==
    /\ UnknownActive /\ cur = active /\ pc = "backoff"
    /\ attempts = MaxAttempts /\ queue # <<>>

(* ------------------------------ C19 ------------------------------------ *)
\* C19: the Target Selector excludes an entity whose distance is exactly the
\* configured attack range: such an entity is never returned.
C19_BoundaryExcluded ==
    best > 0 => entities[best].dist # AttackRange

\* entity i passes every test but the range test
EligibleButRange(i) ==
    /\ entities[i].kind \in AttackTypes /\ ~entities[i].self
    /\ entities[i].visible /\ entities[i].cos >= AttackFovDot

\* C19 as amended: the range test rejects only distances above the attack
\* range.  No entity beyond the range is returned, and an entity exactly at
\* the range that passes the other tests survives, so some entity is returned.
C19_BoundaryIncluded ==
    best >= 0 =>
        /\ best > 0 => entities[best].dist <= AttackRange
        /\ (\E i \in 1..Len(entities) :
                EligibleButRange(i) /\ entities[i].dist = AttackRange) => best > 0

\* the entity returned is exactly at the range
C19_Witness ==
    best > 0 /\ entities[best].dist = AttackRange

(* ------------------------------ C20 ------------------------------------ *)
\* the entities that pass the kind, self, range, visibility and field-of-view
\* tests
Survivors ==
    {i \in 1..Len(entities) :
        EligibleButRange(i) /\ entities[i].dist <= AttackRange}

Score(i) == 2 * entities[i].cos + 10 * (AttackRange - entities[i].dist)

\* C20: the Target Selector returns none exactly when no entity survives the
\* filters; otherwise it returns the survivor with the maximum score
\* 2*cosine + (attackRange - distance), the first in enumeration order among
\* equal scores: of two survivors at equal distance the more centered one.
C20_BestSurvivor ==
    best >= 0 =>
        /\ best = 0 <=> Survivors = {}
        /\ best > 0 =>
              /\ best \in Survivors
              /\ \A j \in Survivors :
                    /\ Score(j) <= Score(best)
                    /\ Score(j) = Score(best) => best <= j
                    /\ (entities[j].dist = entities[best].dist) =>
                           entities[j].cos <= entities[best].cos

\* two survivors, the later one the better, and it is returned
C20_Witness ==
    /\ best = 2 /\ Survivors = {1, 2}
    /\ entities[1].dist = entities[2].dist /\ entities[1].cos < entities[2].cos

(* ------------------------------ C21 ------------------------------------ *)
\* the ids of the tasks in the queue
QueuedIds == {queue[i].id : i \in 1..Len(queue)}

\* C21: when runLoop is about to clear the active slot because executeTask
\* returned, the slot holds the task that returned or is already empty (a
\* stop cleared it), so a completion never clears another task; and every
\* task pushed since the last stop is still queued, is the active task, or
\* has been executed to its return.
C21_CompletionClearsOwnTask ==
    proc = "up" =>
        /\ pc = "returned" => active \in {cur, Null}
        /\ \A i \in 1..Len(pushed) :
              pushed[i] \in QueuedIds \cup {active.id} \cup completed

\* a finite task returns after a command stopped it and pushed another task
C21_Witness ==
    /\ proc = "up" /\ pc = "returned"
    /\ active = Null /\ Len(queue) > 0 /\ cur.id \notin QueuedIds

(* ------------------------------ C22 ------------------------------------ *)
\* C22: each goto wait settles at most once under any ordering of
\* goal-reached, path-reset and timeout events; once it has settled, its
\* goal_reached listener, its path_reset listener and its poll timer are all
\* removed; and a path reset with a reason other than 'noPath' and 'stuck'
\* neither settles the wait nor removes anything.
C22_WaitSettlesOnce ==
    proc = "up" =>
        /\ doneCalls <= 1
        /\ doneCalls = 1 => (~listeners /\ ~orphans /\ "gotoPoll" \notin live)
        /\ (last.op = "callback" /\ last.reason \notin {"", "noPath", "stuck"}) => ~last.changed

====
